---- MODULE Spec2Model ----
(***************************************************************************)
(* State-machine model of backend/app.py: the Flask admin backend of the   *)
(* script/account catalog.  One action per request handler; the MongoDB    *)
(* collections, the per-client Flask session and the environment           *)
(* configuration are the state.                                            *)
(***************************************************************************)
EXTENDS Integers, Sequences, FiniteSets, TLC

(***************************************************************************)
(* Bounds of the model.                                                    *)
(***************************************************************************)
\* Number of documents one run inserts, start-up seeding included.
MaxInserts == 2
\* Number of client sessions (browsers).
NumClients == 1

Clients == 1..NumClients

(***************************************************************************)
(* Python / JSON values.  Strings are TLA+ strings; identifiers that are   *)
(* parsed (path parameters, _id strings) are sequences of characters.      *)
(***************************************************************************)
\* Python None / JSON null (also the result of os.getenv for an unset name).
None == "None"

\* request.json of a body that is a JSON object with the fields f.
Obj(f) == [kind |-> "object", f |-> f]
\* request.json of the JSON body `null`.
JNull == [kind |-> "null"]

\* dict.get(key) with the default None.
Get(d, key) == IF key \in DOMAIN d THEN d[key] ELSE None
\* dict.get(key, default).
GetOr(d, key, default) == IF key \in DOMAIN d THEN d[key] ELSE default
\* The dict d with d[key] = value set.
SetKey(d, key, value) == (key :> value) @@ d
\* The dict d without key.
DelKey(d, key) == [k \in DOMAIN d \ {key} |-> d[k]]

(***************************************************************************)
(* bson.ObjectId: 12 bytes; str() gives 24 lowercase hex digits and        *)
(* ObjectId(str) accepts exactly the strings of 24 hex digits (either      *)
(* case), raising InvalidId for every other string.                        *)
(***************************************************************************)
OidBytes == 12
OidLen == 24
HexLower == <<"0","1","2","3","4","5","6","7","8","9","a","b","c","d","e","f">>
HexUpper == <<"0","1","2","3","4","5","6","7","8","9","A","B","C","D","E","F">>

\* the value of each hex digit, either case
HexDigits == [c \in {HexLower[i] : i \in 1..16} \cup {HexUpper[i] : i \in 1..16} |->
                 (CHOOSE i \in 1..16 : HexLower[i] = c \/ HexUpper[i] = c) - 1]
IsHex(c) == c \in DOMAIN HexDigits
HexVal(c) == HexDigits[c]

\* str(ObjectId): two lowercase hex digits per byte.
OidToStr(b) ==
    [i \in 1..(2 * Len(b)) |->
        IF i % 2 = 1 THEN HexLower[(b[(i + 1) \div 2] \div 16) + 1]
                     ELSE HexLower[(b[i \div 2] % 16) + 1]]

\* The exception ObjectId(s) raises for a malformed string.
InvalidId == [error |-> "InvalidId"]

\* ObjectId(s) for a string s: the 12 bytes, or InvalidId.
ObjectId(s) ==
    IF Len(s) = OidLen /\ \A i \in 1..Len(s) : IsHex(s[i])
    THEN [oid |-> [j \in 1..OidBytes |->
                      16 * HexVal(s[2 * j - 1]) + HexVal(s[2 * j])]]
    ELSE InvalidId

\* Last byte of the first identifier the store generates; the following
\* ones count up from it (insert_one generates a fresh ObjectId).
FirstOid == 10
GenOid(n) == [oid |-> [j \in 1..OidBytes |-> IF j = OidBytes THEN FirstOid + n ELSE 0]]

\* str(_id) of a stored document: an ObjectId prints as hex, a string _id
\* (supplied by the client in the inserted document) as itself.
IdToStr(id) == IF "oid" \in DOMAIN id THEN OidToStr(id.oid) ELSE id.str

VARIABLES
    ADMIN_PASSWORD,       \* os.getenv("ADMIN_PASSWORD"): a string or None
    session,              \* per client: the keys of the Flask session dict
    scripts_collection,   \* sequence of documents [_id, f]
    accounts_collection,  \* sequence of documents [_id, f]
    inserted,             \* number of inserts performed (feeds GenOid)
    last,                 \* the last request and the response it got
    auth_history,         \* history: per client "never", "logged_in", "logged_out"
    deleted_script        \* history: id of the last script DELETE answered 200,
                          \*          with no script created since

vars == <<ADMIN_PASSWORD, session, scripts_collection,
          accounts_collection, inserted, last, auth_history, deleted_script>>

(***************************************************************************)
(* Responses.  A handler's result holds the response and the state the     *)
(* handler leaves: R(c) is the result of a handler that has done nothing   *)
(* yet.                                                                    *)
(***************************************************************************)
R(c) == [status |-> 0, msg |-> "", docs |-> <<>>, flag |-> "none", ext |-> <<>>,
         notified |-> 0,
         session |-> session[c],
         scripts |-> scripts_collection,
         accounts |-> accounts_collection,
         inserted |-> inserted]

\* jsonify({"message": msg}), status
Reply(r, status, msg) == [r EXCEPT !.status = status, !.msg = msg]

\* An exception no handler catches: Flask answers 500; what the handler
\* had stored before it stays stored.
Raise500(r) ==
    [r EXCEPT !.status = 500, !.msg = "Internal Server Error",
              !.docs = <<>>, !.flag = "none", !.ext = <<>>]

\* What one call of send_telegram_notification meets: the Telegram
\* configuration missing, or the outcome of requests.post(...) followed by
\* raise_for_status().
Outcomes == {"config_missing", "ok", "connection_error", "timeout", "http_error"}

\* The outcomes that raise a requests.exceptions.RequestException
\* (ConnectionError, Timeout, and HTTPError from raise_for_status()).
RequestException == {"connection_error", "timeout", "http_error"}

\* Variant of send_telegram_notification whose except clause misses timeouts.
send_telegram_notification_timeout_escapes(o) ==
    IF o \in {"config_missing", "ok", "connection_error", "http_error"}
    THEN "returned" ELSE "raised"

\* send_telegram_notification(message) meeting outcome o: "returned" when
\* the function returns, "raised" when an exception leaves it.
send_telegram_notification(o) ==
    IF o = "config_missing" THEN "returned"         \* printed, skipped
    ELSE IF o = "ok" THEN "returned"
    ELSE IF o \in RequestException THEN "returned"  \* caught and printed
    ELSE "raised"

\* A handler calling send_telegram_notification and then returning r.
Notify(r, o) ==
    IF send_telegram_notification(o) = "raised"
    THEN [Raise500(r) EXCEPT !.notified = r.notified + 1]
    ELSE [r EXCEPT !.notified = r.notified + 1]

\* Variant of check_admin_auth that takes any session data for an admin's.
check_admin_auth_any_key(s) == s # {}

\* check_admin_auth(): session.get('is_admin') == True
check_admin_auth(s) == "is_admin" \in s

(***************************************************************************)
(* /api/login, /api/logout, /api/check-auth                                *)
(***************************************************************************)
\* Variant of the password test that accepts every supplied string.
PasswordMatches_any_string(password) == password # None

\* password == ADMIN_PASSWORD
PasswordMatches(password) == password = ADMIN_PASSWORD

admin_login(c, data, o) ==
    IF data.kind # "object" THEN Raise500(R(c))   \* None.get: AttributeError
    ELSE LET password == Get(data.f, "password") IN
         IF PasswordMatches(password)
         THEN Notify([R(c) EXCEPT !.session = @ \cup {"is_admin", "_permanent"},
                                  !.status = 200, !.flag = "true"], o)
         ELSE [R(c) EXCEPT !.status = 401, !.flag = "false",
                           !.msg = "Incorrect password"]

admin_logout(c) ==
    [R(c) EXCEPT !.session = @ \ {"is_admin"}, !.status = 200, !.flag = "true"]

check_auth(c) ==
    [R(c) EXCEPT !.status = 200,
                 !.flag = IF check_admin_auth(session[c]) THEN "true" ELSE "false"]

(***************************************************************************)
(* /api/upload-image                                                       *)
(***************************************************************************)
UpperChars == <<"A","B","C","D","E","F","G","H","I","J","K","L","M",
                "N","O","P","Q","R","S","T","U","V","W","X","Y","Z">>
LowerChars == <<"a","b","c","d","e","f","g","h","i","j","k","l","m",
                "n","o","p","q","r","s","t","u","v","w","x","y","z">>
\* str.lower() on one character
LowerChar(ch) ==
    IF \E i \in 1..26 : UpperChars[i] = ch
    THEN LowerChars[CHOOSE i \in 1..26 : UpperChars[i] = ch]
    ELSE ch
Lower(s) == [i \in 1..Len(s) |-> LowerChar(s[i])]

\* filename.rsplit('.', 1)[1]: what follows the last dot
AfterLastDot(s) ==
    LET k == CHOOSE i \in 1..Len(s) :
                 s[i] = "." /\ \A j \in (i + 1)..Len(s) : s[j] # "."
    IN SubSeq(s, k + 1, Len(s))

\* request.files has no 'image' entry
NoFile == [present |-> FALSE]
File(name, readable) == [present |-> TRUE, filename |-> name, readable |-> readable]

upload_image(c, file) ==
    IF ~check_admin_auth(session[c]) THEN Reply(R(c), 401, "Unauthorized")
    ELSE IF ~file.present THEN Reply(R(c), 400, "No image file provided")
    ELSE IF file.filename = <<>> THEN Reply(R(c), 400, "No selected file")
    ELSE IF ~file.readable THEN Reply(R(c), 500, "Error processing image")
    ELSE LET file_extension ==
                 IF \E i \in 1..Len(file.filename) : file.filename[i] = "."
                 THEN Lower(AfterLastDot(file.filename))
                 ELSE <<"p", "n", "g">>
         IN [R(c) EXCEPT !.status = 200, !.flag = "true", !.ext = file_extension]

(***************************************************************************)
(* The collections (pymongo).  A document is [_id |-> id, f |-> fields];   *)
(* an _id is [oid |-> bytes] (an ObjectId) or [str |-> chars] (a string    *)
(* the client put into the inserted document).                             *)
(***************************************************************************)
\* list(collection.find({})) with each _id replaced by str(_id)
find_all(coll) == [i \in 1..Len(coll) |-> [_id |-> IdToStr(coll[i]._id), f |-> coll[i].f]]

\* The _id insert_one stores for document data: the document's own "_id"
\* when it has one, a generated ObjectId otherwise.
InsertId(data, n) ==
    IF "_id" \in DOMAIN data THEN [str |-> data["_id"]] ELSE GenOid(n)

\* insert_one raises DuplicateKeyError when the _id is already stored
DuplicateKey(coll, id) == \E i \in 1..Len(coll) : coll[i]._id = id

\* collection after insert_one(data)
insert_one(coll, data, n) ==
    Append(coll, [_id |-> InsertId(data, n), f |-> DelKey(data, "_id")])

\* update_one({"_id": id}, {"$set": ...}).matched_count
matched_count(coll, id) == Cardinality({i \in 1..Len(coll) : coll[i]._id = id})

\* {"$set": upd} applied to the fields f
SetFields(f, upd) == [k \in DOMAIN f \cup DOMAIN upd |-> IF k \in DOMAIN upd THEN upd[k] ELSE f[k]]

\* collection after update_one({"_id": id}, {"$set": upd})
update_one(coll, id, upd) ==
    [i \in 1..Len(coll) |->
        IF coll[i]._id = id THEN [coll[i] EXCEPT !.f = SetFields(@, upd)] ELSE coll[i]]

\* collection after delete_one({"_id": id}): the first match is removed
RECURSIVE delete_one(_, _)
delete_one(coll, id) ==
    IF coll = <<>> THEN <<>>
    ELSE IF Head(coll)._id = id THEN Tail(coll)
    ELSE <<Head(coll)>> \o delete_one(Tail(coll), id)

\* Variant of deleted_count that reports a deletion whatever was matched.
deleted_count_ignored(coll, id) == 1

\* delete_one(...).deleted_count
deleted_count(coll, id) == Len(coll) - Len(delete_one(coll, id))

\* all(field in data for field in required_fields), data a dict
HasAll(data, required_fields) == \A field \in required_fields : field \in DOMAIN data

(***************************************************************************)
(* /api/scripts                                                            *)
(***************************************************************************)
ScriptRequired == {"title", "image", "key"}

scripts_GET(c) ==
    [R(c) EXCEPT !.status = 200, !.docs = find_all(scripts_collection)]

scripts_POST(c, data, o) ==
    IF ~check_admin_auth(session[c]) THEN Reply(R(c), 401, "Unauthorized")
    ELSE IF data.kind # "object" THEN Raise500(R(c))   \* field in None: TypeError
    ELSE IF ~HasAll(data.f, ScriptRequired) THEN Reply(R(c), 400, "Missing required fields")
    ELSE IF DuplicateKey(scripts_collection, InsertId(data.f, inserted))
         THEN Raise500(R(c))
    ELSE Notify([R(c) EXCEPT
                    !.scripts = insert_one(@, data.f, inserted),
                    !.inserted = @ + 1,
                    !.docs = <<[_id |-> IdToStr(InsertId(data.f, inserted)),
                                f |-> DelKey(data.f, "_id")]>>,
                    !.status = 201, !.msg = "Script added successfully"], o)

scripts_PUT(c, script_id, data, o) ==
    IF ~check_admin_auth(session[c]) THEN Reply(R(c), 401, "Unauthorized")
    ELSE IF data.kind # "object" THEN Raise500(R(c))
    ELSE IF ~HasAll(data.f, ScriptRequired)
         THEN Reply(R(c), 400, "Missing required fields for update")
    ELSE LET oid == ObjectId(script_id) IN
         IF oid = InvalidId THEN Reply(R(c), 400, "Invalid script ID format")
         ELSE IF matched_count(scripts_collection, oid) = 0
              THEN Reply(R(c), 404, "Script not found")
         ELSE Notify([R(c) EXCEPT
                        !.scripts = update_one(@, oid,
                                        [title |-> data.f.title, image |-> data.f.image,
                                         key |-> data.f.key]),
                        !.status = 200, !.msg = "Script updated successfully"], o)

scripts_DELETE(c, script_id, o) ==
    IF ~check_admin_auth(session[c]) THEN Reply(R(c), 401, "Unauthorized")
    ELSE LET oid == ObjectId(script_id) IN
         IF oid = InvalidId THEN Reply(R(c), 400, "Invalid script ID format")
         ELSE IF deleted_count(scripts_collection, oid) = 1
              THEN Notify([R(c) EXCEPT
                             !.scripts = delete_one(@, oid),
                             !.status = 200, !.msg = "Script deleted successfully"], o)
         ELSE Reply(R(c), 404, "Script not found")

(***************************************************************************)
(* /api/accounts                                                           *)
(***************************************************************************)
AccountRequired == {"name", "image", "username", "password"}
DefaultAccent == "#0ea5e9"

accounts_GET(c) ==
    IF ~check_admin_auth(session[c]) THEN Reply(R(c), 401, "Unauthorized")
    ELSE [R(c) EXCEPT !.status = 200, !.docs = find_all(accounts_collection)]

\* data['accentColor'] = '#0ea5e9' when the body has none
WithAccent(data) ==
    IF "accentColor" \in DOMAIN data THEN data ELSE SetKey(data, "accentColor", DefaultAccent)

accounts_POST(c, data, o) ==
    IF ~check_admin_auth(session[c]) THEN Reply(R(c), 401, "Unauthorized")
    ELSE IF data.kind # "object" THEN Raise500(R(c))
    ELSE IF ~HasAll(data.f, AccountRequired) THEN Reply(R(c), 400, "Missing required fields")
    ELSE IF DuplicateKey(accounts_collection, InsertId(data.f, inserted))
         THEN Raise500(R(c))
    ELSE Notify([R(c) EXCEPT
                    !.accounts = insert_one(@, WithAccent(data.f), inserted),
                    !.inserted = @ + 1,
                    !.docs = <<[_id |-> IdToStr(InsertId(data.f, inserted)),
                                f |-> DelKey(WithAccent(data.f), "_id")]>>,
                    !.status = 201, !.msg = "Profile added successfully"], o)

\* update_data of the account update
AccountUpdate(data) ==
    LET base == [name |-> data.name, image |-> data.image,
                 username |-> data.username, password |-> data.password]
    IN IF "accentColor" \in DOMAIN data
       THEN SetKey(base, "accentColor", data.accentColor) ELSE base

accounts_PUT(c, account_id, data, o) ==
    IF ~check_admin_auth(session[c]) THEN Reply(R(c), 401, "Unauthorized")
    ELSE IF data.kind # "object" THEN Raise500(R(c))
    ELSE IF ~HasAll(data.f, AccountRequired)
         THEN Reply(R(c), 400, "Missing required fields for update")
    ELSE LET oid == ObjectId(account_id) IN
         IF oid = InvalidId THEN Reply(R(c), 400, "Invalid account ID format")
         ELSE IF matched_count(accounts_collection, oid) = 0
              THEN Reply(R(c), 404, "Account not found")
         ELSE Notify([R(c) EXCEPT
                        !.accounts = update_one(@, oid, AccountUpdate(data.f)),
                        !.status = 200, !.msg = "Profile updated successfully"], o)

accounts_DELETE(c, account_id, o) ==
    IF ~check_admin_auth(session[c]) THEN Reply(R(c), 401, "Unauthorized")
    ELSE LET oid == ObjectId(account_id) IN
         IF oid = InvalidId THEN Reply(R(c), 400, "Invalid account ID format")
         ELSE IF deleted_count(accounts_collection, oid) = 1
              THEN Notify([R(c) EXCEPT
                             !.accounts = delete_one(@, oid),
                             !.status = 200, !.msg = "Profile deleted successfully"], o)
         ELSE Reply(R(c), 404, "Account not found")

(***************************************************************************)
(* /api/notify/copy                                                        *)
(***************************************************************************)
notify_copy(c, data, o) ==
    IF data.kind # "object" THEN Raise500(R(c))          \* None.get: AttributeError
    ELSE IF GetOr(data.f, "key", "N/A") = None THEN Raise500(R(c))  \* None[:100]: TypeError
    ELSE Notify([R(c) EXCEPT !.status = 200, !.flag = "true",
                             !.msg = "Notification sent"], o)

(***************************************************************************)
(* Requests the clients send.                                              *)
(***************************************************************************)
Passwords == {"secret", "wrong"}

LoginBodies ==
    { Obj([password |-> "secret"]), Obj([password |-> "wrong"]),
      Obj([password |-> None]),     \* {"password": null}
      Obj([user |-> "admin"]),      \* no password field
      JNull }

\* the same hex string in upper case
UpperHex(s) == [i \in 1..Len(s) |-> HexUpper[HexVal(s[i]) + 1]]

Id0 == OidToStr(GenOid(0).oid)
Id1 == OidToStr(GenOid(1).oid)
ShortId == <<"a", "b", "c">>
NonHexId == [i \in 1..OidLen |-> "g"]

PathIds == {Id0, UpperHex(Id1), ShortId, NonHexId}

\* bodies of POST /api/scripts
ScriptBodies ==
    { Obj([title |-> "T1", image |-> "I", key |-> "K"]),
      Obj([title |-> "T1", image |-> "I"]),                  \* key missing
      Obj([title |-> None, image |-> "I", key |-> "K"]),     \* "title": null
      Obj([_id |-> Id0, title |-> "T1", image |-> "I", key |-> "K"]),
      JNull }

\* bodies of PUT /api/scripts/<id>
ScriptUpdates ==
    { Obj([title |-> "T2", image |-> "I", key |-> "K"]),
      Obj([title |-> "T2", image |-> "I"]),                  \* key missing
      Obj([title |-> None, image |-> "I", key |-> "K"]),     \* "title": null
      JNull }

\* bodies of POST /api/accounts
AccountBodies ==
    { Obj([name |-> "N1", image |-> "I", username |-> "u", password |-> "p"]),
      Obj([name |-> "N1", image |-> "I", username |-> "u", password |-> "p",
           accentColor |-> "#fff"]),
      Obj([name |-> "N1", image |-> "I", username |-> "u"]), \* password missing
      JNull }

\* bodies of PUT /api/accounts/<id>
AccountUpdates ==
    { Obj([name |-> "N2", image |-> "I", username |-> "u", password |-> "p"]),
      Obj([name |-> "N2", image |-> "I", username |-> "u", password |-> "p",
           accentColor |-> "#000"]),
      Obj([name |-> "N2", image |-> "I", username |-> "u"]), \* password missing
      JNull }

CopyBodies ==
    { Obj([title |-> "T1", key |-> "K", time |-> "t"]),
      Obj([title |-> "T1"]),
      Obj([title |-> "T1", key |-> None]),
      JNull }

Files ==
    { NoFile, File(<<>>, TRUE),
      File(<<"p", ".", "J", "P", "G">>, TRUE),
      File(<<"p">>, TRUE),
      File(<<"p", ".", "g", "i", "f">>, FALSE) }

\* default_scripts.json and default_accounts.json: both absent, or one
\* document each
SeedFiles ==
    { [scripts |-> <<>>, accounts |-> <<>>],
      [scripts |-> <<[title |-> "T1", image |-> "I", key |-> "K"]>>,
       accounts |-> <<[name |-> "N1", image |-> "I", username |-> "u",
                       password |-> "p"]>>] }

\* insert_many(docs) into an empty collection, ids generated from n on
insert_many(docs, n) == [i \in 1..Len(docs) |-> [_id |-> GenOid(n + i - 1), f |-> docs[i]]]

NoId == <<"-">>

\* title, image and key of a request that created no script
NoFields == [title |-> "-", image |-> "-", key |-> "-"]

\* last before any request
NoRequest == [op |-> "none", client |-> 0, id |-> NoId, cls |-> "-",
              was_admin |-> FALSE, status |-> 0, flag |-> "none",
              notified |-> 0, rid |-> NoId, sent |-> NoFields]

Init ==
    /\ ADMIN_PASSWORD \in {None, "secret"}
    /\ session = [c \in Clients |-> {}]
    /\ \E seed \in SeedFiles :
          /\ scripts_collection = insert_many(seed.scripts, 0)
          /\ accounts_collection = insert_many(seed.accounts, Len(seed.scripts))
          /\ inserted = Len(seed.scripts) + Len(seed.accounts)
    /\ last = NoRequest
    /\ auth_history = [c \in Clients |-> "never"]
    /\ deleted_script = NoId

(***************************************************************************)
(* One request: the handler's result r becomes the next state, and the     *)
(* request and its response are recorded in last.  cls is the class of the *)
(* request's input: for a login the password supplied, for a create or an  *)
(* update whether the body has every required field.                       *)
(***************************************************************************)
\* title, image and key of a request body that has them
Sent(data) ==
    IF data.kind = "object" /\ ScriptRequired \subseteq DOMAIN data.f
    THEN [title |-> data.f.title, image |-> data.f.image, key |-> data.f.key]
    ELSE NoFields

Serve(op, c, id, cls, data, result) ==
    LET r == result IN
    /\ r.inserted <= MaxInserts
    /\ session' = [session EXCEPT ![c] = r.session]
    /\ scripts_collection' = r.scripts
    /\ accounts_collection' = r.accounts
    /\ inserted' = r.inserted
    /\ last' = [op |-> op, client |-> c, id |-> id, cls |-> cls,
                was_admin |-> "is_admin" \in session[c],
                status |-> r.status, flag |-> r.flag, notified |-> r.notified,
                rid |-> IF r.status = 201 THEN r.docs[1]._id ELSE NoId,
                sent |-> IF op = "scripts_POST" /\ r.status = 201
                         THEN Sent(data) ELSE NoFields]
    /\ UNCHANGED ADMIN_PASSWORD

\* the outcomes of the notifier's HTTP call to draw for a handler whose
\* result is r when the call succeeds: one when the handler does not notify
Outs(r) == IF r.notified = 0 THEN {"ok"} ELSE Outcomes

\* the class of a login body
PasswordClass(data) ==
    IF data.kind # "object" THEN "nobody"
    ELSE IF "password" \notin DOMAIN data.f THEN "absent"
    ELSE IF data.f.password \notin Passwords THEN "null"
    ELSE IF ADMIN_PASSWORD # None /\ data.f.password = ADMIN_PASSWORD THEN "correct"
    ELSE "incorrect"

\* the class of a create or update body
FieldsClass(data, required) ==
    IF data.kind = "object" /\ \A field \in required : field \in DOMAIN data.f
    THEN "complete" ELSE "lacks"

Login ==
    \E c \in Clients, data \in LoginBodies :
      \E o \in Outs(admin_login(c, data, "ok")) :
        /\ Serve("login", c, NoId, PasswordClass(data), data, admin_login(c, data, o))
        /\ auth_history' = [auth_history EXCEPT ![c] =
                               IF PasswordClass(data) = "correct" THEN "logged_in" ELSE @]
        /\ UNCHANGED deleted_script

Logout ==
    \E c \in Clients :
        /\ Serve("logout", c, NoId, "-", JNull, admin_logout(c))
        /\ auth_history' = [auth_history EXCEPT ![c] = "logged_out"]
        /\ UNCHANGED deleted_script

CheckAuth ==
    \E c \in Clients :
        /\ Serve("check_auth", c, NoId, "-", JNull, check_auth(c))
        /\ UNCHANGED <<auth_history, deleted_script>>

UploadImage ==
    \E c \in Clients, file \in Files :
        /\ Serve("upload_image", c, NoId, "-", JNull, upload_image(c, file))
        /\ UNCHANGED <<auth_history, deleted_script>>

ScriptsGet ==
    \E c \in Clients :
        /\ Serve("scripts_GET", c, NoId, "-", JNull, scripts_GET(c))
        /\ UNCHANGED <<auth_history, deleted_script>>

ScriptsPost ==
    \E c \in Clients, data \in ScriptBodies :
      \E o \in Outs(scripts_POST(c, data, "ok")) :
        LET r == scripts_POST(c, data, o) IN
        /\ Serve("scripts_POST", c, NoId, FieldsClass(data, ScriptRequired), data, r)
        /\ deleted_script' = IF r.status = 201 THEN NoId ELSE deleted_script
        /\ UNCHANGED auth_history

ScriptsPut ==
    \E c \in Clients, id \in PathIds, data \in ScriptUpdates :
      \E o \in Outs(scripts_PUT(c, id, data, "ok")) :
        /\ Serve("scripts_PUT", c, id, FieldsClass(data, ScriptRequired), data,
                 scripts_PUT(c, id, data, o))
        /\ UNCHANGED <<auth_history, deleted_script>>

ScriptsDelete ==
    \E c \in Clients, id \in PathIds :
      \E o \in Outs(scripts_DELETE(c, id, "ok")) :
        LET r == scripts_DELETE(c, id, o) IN
        /\ Serve("scripts_DELETE", c, id, "-", JNull, r)
        /\ deleted_script' = IF r.status = 200 THEN id ELSE deleted_script
        /\ UNCHANGED auth_history

AccountsGet ==
    \E c \in Clients :
        /\ Serve("accounts_GET", c, NoId, "-", JNull, accounts_GET(c))
        /\ UNCHANGED <<auth_history, deleted_script>>

AccountsPost ==
    \E c \in Clients, data \in AccountBodies :
      \E o \in Outs(accounts_POST(c, data, "ok")) :
        /\ Serve("accounts_POST", c, NoId, FieldsClass(data, AccountRequired), data,
                 accounts_POST(c, data, o))
        /\ UNCHANGED <<auth_history, deleted_script>>

AccountsPut ==
    \E c \in Clients, id \in PathIds, data \in AccountUpdates :
      \E o \in Outs(accounts_PUT(c, id, data, "ok")) :
        /\ Serve("accounts_PUT", c, id, FieldsClass(data, AccountRequired), data,
                 accounts_PUT(c, id, data, o))
        /\ UNCHANGED <<auth_history, deleted_script>>

AccountsDelete ==
    \E c \in Clients, id \in PathIds :
      \E o \in Outs(accounts_DELETE(c, id, "ok")) :
        /\ Serve("accounts_DELETE", c, id, "-", JNull, accounts_DELETE(c, id, o))
        /\ UNCHANGED <<auth_history, deleted_script>>

NotifyCopy ==
    \E c \in Clients, data \in CopyBodies :
      \E o \in Outs(notify_copy(c, data, "ok")) :
        /\ Serve("notify_copy", c, NoId, "-", data, notify_copy(c, data, o))
        /\ UNCHANGED <<auth_history, deleted_script>>

Next ==
    \/ Login \/ Logout \/ CheckAuth \/ UploadImage
    \/ ScriptsGet \/ ScriptsPost \/ ScriptsPut \/ ScriptsDelete
    \/ AccountsGet \/ AccountsPost \/ AccountsPut \/ AccountsDelete
    \/ NotifyCopy

Spec == Init /\ [][Next]_vars

\* the deployments whose ADMIN_PASSWORD is set
InitConfigured == Init /\ ADMIN_PASSWORD # None
SpecConfigured == InitConfigured /\ [][Next]_vars

(***************************************************************************)
(* Vocabulary of the properties.                                           *)
(***************************************************************************)
ProtectedOps ==
    {"scripts_POST", "scripts_PUT", "scripts_DELETE", "accounts_GET",
     "accounts_POST", "accounts_PUT", "accounts_DELETE", "upload_image"}

NotifyingOps ==
    {"login", "scripts_POST", "scripts_PUT", "scripts_DELETE",
     "accounts_POST", "accounts_PUT", "accounts_DELETE", "notify_copy"}

CreateOrUpdateOps == {"scripts_POST", "scripts_PUT", "accounts_POST", "accounts_PUT"}

StoreUnchanged == UNCHANGED <<scripts_collection, accounts_collection>>

\* an identifier in the store's format: 24 hex digits
HexChars == {"0","1","2","3","4","5","6","7","8","9",
             "a","b","c","d","e","f","A","B","C","D","E","F"}
WellFormedId(id) == Len(id) = OidLen /\ \A i \in 1..Len(id) : id[i] \in HexChars

\* the canonical (lower-case) form of a well-formed identifier
Canonical(id) == Lower(id)

\* the identifiers GET lists for a collection
ListedIds(coll) == {IdToStr(coll[i]._id) : i \in 1..Len(coll)}

\* the collection an operation works on, before the request
CollectionOf(op) ==
    IF op \in {"scripts_POST", "scripts_PUT", "scripts_DELETE", "scripts_GET"}
    THEN scripts_collection ELSE accounts_collection

(***************************************************************************)
(* C1: a request of a session whose is_admin flag is not true to a         *)
(* protected operation is answered 401, changes neither collection and     *)
(* sends no notification, whatever its body or identifier.                 *)
(***************************************************************************)
C1_UnauthorizedRejected ==
    [][ (last'.op \in ProtectedOps /\ ~last'.was_admin)
        => (last'.status = 401 /\ StoreUnchanged /\ last'.notified = 0) ]_vars

\* a session that logged out asked to update a stored script, and got 401
C1_Witness ==
    /\ last.op = "scripts_PUT" /\ ~last.was_admin /\ last.status = 401
    /\ last.id \in ListedIds(scripts_collection)
    /\ session[last.client] # {}

(***************************************************************************)
(* C2: after a logout every protected request of the session is answered   *)
(* 401 until the session logs in with the correct password; logout always  *)
(* answers 200, and a second logout leaves the session as the first did.   *)
(***************************************************************************)
C2_LogoutRevokes ==
    [][ /\ (last'.op \in ProtectedOps /\ auth_history[last'.client] = "logged_out")
           => last'.status = 401
        /\ last'.op = "logout"
           => (last'.status = 200 /\ "is_admin" \notin session'[last'.client])
        /\ (last.op = "logout" /\ last'.op = "logout" /\ last'.client = last.client)
           => session' = session ]_vars

(***************************************************************************)
(* C3: a login with an incorrect password is answered 401, leaves the      *)
(* session unchanged and sends no notification, and the check-auth that    *)
(* follows reports authenticated: false.                                   *)
(***************************************************************************)
C3_FailedLoginReportsFalse ==
    [][ /\ (last'.op = "login" /\ last'.cls = "incorrect")
           => (last'.status = 401 /\ session' = session /\ last'.notified = 0)
        /\ (last.op = "login" /\ last.cls = "incorrect"
              /\ last'.op = "check_auth" /\ last'.client = last.client)
           => last'.flag = "false" ]_vars

(***************************************************************************)
(* C3 as amended: a login with an incorrect password is answered 401,      *)
(* leaves the session unchanged and sends no notification, and the         *)
(* check-auth that follows reports what it reported before the login:      *)
(* false for a session that was not authenticated, true for one that was.  *)
(***************************************************************************)
C3_FailedLoginKeepsSession ==
    [][ /\ (last'.op = "login" /\ last'.cls = "incorrect")
           => (last'.status = 401 /\ session' = session /\ last'.notified = 0)
        /\ (last.op = "login" /\ last.cls = "incorrect"
              /\ last'.op = "check_auth" /\ last'.client = last.client)
           => last'.flag = (IF last.was_admin THEN "true" ELSE "false") ]_vars

\* an authenticated session sent a wrong password, got 401 and is still
\* authenticated
C3_Witness ==
    /\ last.op = "login" /\ last.cls = "incorrect" /\ last.status = 401
    /\ last.was_admin /\ "is_admin" \in session[last.client]

(***************************************************************************)
(* C4: every stored script has non-null title, image and key, and every    *)
(* stored account has non-null name, image, username and password.         *)
(***************************************************************************)
NonNull(f, fields) == \A k \in fields : k \in DOMAIN f /\ f[k] # None

C4_RequiredFieldsNonNull ==
    /\ \A i \in 1..Len(scripts_collection) :
          NonNull(scripts_collection[i].f, ScriptRequired)
    /\ \A i \in 1..Len(accounts_collection) :
          NonNull(accounts_collection[i].f, AccountRequired)

(***************************************************************************)
(* C5: a script created with 201 is listed by GET /api/scripts, until it   *)
(* is updated or deleted, with the title, image and key sent and with the  *)
(* non-empty id the create returned, and no other listed script has that   *)
(* id.                                                                     *)
(***************************************************************************)
\* the request just served updated or deleted the script listed as d
Targets(d) ==
    /\ last'.op \in {"scripts_PUT", "scripts_DELETE"}
    /\ last'.status = 200
    /\ Canonical(last'.id) = d._id

C5_CreatedScriptListed ==
    [][ /\ (last'.op = "scripts_POST" /\ last'.status = 201)
           => LET view == find_all(scripts_collection') IN
              /\ last'.rid # <<>>
              /\ \E i \in 1..Len(view) :
                    /\ view[i]._id = last'.rid
                    /\ view[i].f.title = last'.sent.title
                    /\ view[i].f.image = last'.sent.image
                    /\ view[i].f.key = last'.sent.key
                    /\ \A j \in 1..Len(view) : j # i => view[j]._id # last'.rid
        /\ \A i \in 1..Len(scripts_collection) :
              LET d == find_all(scripts_collection)[i] IN
              ~Targets(d) => \E j \in 1..Len(scripts_collection') :
                                find_all(scripts_collection')[j] = d ]_vars

(***************************************************************************)
(* C6: an authenticated create or update whose body lacks a required field *)
(* is answered 400; nothing is stored, changed or removed and no           *)
(* notification is sent, whatever the path identifier.                     *)
(***************************************************************************)
C6_MissingFieldRejected ==
    [][ (last'.op \in CreateOrUpdateOps /\ last'.was_admin /\ last'.cls = "lacks")
        => (last'.status = 400 /\ StoreUnchanged /\ last'.notified = 0) ]_vars

(***************************************************************************)
(* C7: an authenticated update with all required fields, or delete, is     *)
(* answered 400 for a malformed identifier and 404 for a well-formed one   *)
(* that matches no stored record; both leave the collections unchanged and *)
(* send no notification.                                                   *)
(***************************************************************************)
UpdateOrDelete ==
    \/ last'.op \in {"scripts_PUT", "accounts_PUT"} /\ last'.cls = "complete"
    \/ last'.op \in {"scripts_DELETE", "accounts_DELETE"}

C7_BadIdentifierRejected ==
    [][ (last'.was_admin /\ UpdateOrDelete)
        => /\ ~WellFormedId(last'.id)
              => (last'.status = 400 /\ StoreUnchanged /\ last'.notified = 0)
           /\ (WellFormedId(last'.id)
                 /\ Canonical(last'.id) \notin ListedIds(CollectionOf(last'.op)))
              => (last'.status = 404 /\ StoreUnchanged /\ last'.notified = 0) ]_vars

\* an admin deleted by a well-formed identifier that matches no account,
\* while accounts are stored, and got 404
C7_Witness ==
    /\ last.op = "accounts_DELETE" /\ last.was_admin /\ last.status = 404
    /\ WellFormedId(last.id)
    /\ accounts_collection # <<>>

(***************************************************************************)
(* C8: an authenticated DELETE on the id of a stored script is answered    *)
(* 200 and removes exactly that record, leaving the other scripts and the  *)
(* accounts unchanged; a second DELETE on the same id, with no create in   *)
(* between, is answered 404 and changes nothing.                           *)
(***************************************************************************)
\* coll without the documents listed under id
Without(coll, id) == SelectSeq(coll, LAMBDA d : IdToStr(d._id) # id)

C8_DeleteTwice ==
    [][ /\ (last'.op = "scripts_DELETE" /\ last'.was_admin
              /\ last'.id \in ListedIds(scripts_collection))
           => /\ last'.status = 200
              /\ Len(scripts_collection') = Len(scripts_collection) - 1
              /\ scripts_collection' = Without(scripts_collection, last'.id)
              /\ UNCHANGED accounts_collection
        /\ (last'.op = "scripts_DELETE" /\ last'.was_admin
              /\ last'.id = deleted_script)
           => (last'.status = 404 /\ StoreUnchanged) ]_vars

(***************************************************************************)
(* C9: a notification is attempted exactly once by each successful login,  *)
(* create, update, delete and copy, and by no request that fails; and      *)
(* whatever the notifier meets, the status, the response and the state a   *)
(* request leaves are those of the request whose notification succeeds.    *)
(***************************************************************************)
\* the handler H, which takes the notifier's outcome, answers the same and
\* leaves the same state whatever the notifier meets
SameUnderEveryOutcome(H(_)) ==
    LET ok == H("ok") IN
    ok.notified = 0 \/ \A o \in Outcomes : H(o) = ok

\* in the current state, that holds of every request
OutcomeIndependent ==
    \A c \in Clients :
        /\ \A data \in LoginBodies :
              SameUnderEveryOutcome(LAMBDA o : admin_login(c, data, o))
        /\ \A data \in ScriptBodies :
              SameUnderEveryOutcome(LAMBDA o : scripts_POST(c, data, o))
        /\ \A data \in AccountBodies :
              SameUnderEveryOutcome(LAMBDA o : accounts_POST(c, data, o))
        /\ \A data \in CopyBodies :
              SameUnderEveryOutcome(LAMBDA o : notify_copy(c, data, o))
        /\ \A id \in PathIds :
              /\ SameUnderEveryOutcome(LAMBDA o : scripts_DELETE(c, id, o))
              /\ SameUnderEveryOutcome(LAMBDA o : accounts_DELETE(c, id, o))
              /\ \A data \in ScriptUpdates :
                    SameUnderEveryOutcome(LAMBDA o : scripts_PUT(c, id, data, o))
              /\ \A data \in AccountUpdates :
                    SameUnderEveryOutcome(LAMBDA o : accounts_PUT(c, id, data, o))

C10_FlagOnlyByPassword ==
    /\ \A c \in Clients :
          "is_admin" \in session[c] => auth_history[c] = "logged_in"
    /\ (last.op = "login" /\ last.cls = "absent") => last.status = 401

====
